---- MODULE Spec2Model ----
(***************************************************************************)
(* Obstacle shape primitives of pybots/navigation/obstacle_primitives.py:  *)
(* ShapePrimitive (a polygon with holes in the north/east plane) and       *)
(* PrismaticShape (the same polygon bounded by a top and a bottom plane).  *)
(*                                                                         *)
(* Numbers are exact extended rationals <<n, d>>: d > 0 is the fraction    *)
(* n/d in lowest terms, <<1, 0>> is +inf, <<-1, 0>> is -inf and <<0, 0>>   *)
(* is nan, with the comparisons and the arithmetic numpy gives them.       *)
(* Polygons are axis-aligned rectangles with rectangular holes, so every   *)
(* point the geometry library computes from integer vertices is rational.  *)
(***************************************************************************)
EXTENDS Integers, Sequences, FiniteSets

VARIABLES shape, op, arg, result

vars == <<shape, op, arg, result>>

---------------------------------------------------------------------------
(* Bounds of the model.                                                    *)

\* lateral query points range over -1 .. MaxCoord in north and in east
MaxCoord == 7

\* elevations of query points and path vertices range over -MaxZ .. MaxZ
MaxZ == 2

\* a path has 2 .. MaxPathLen vertices
MaxPathLen == 3

---------------------------------------------------------------------------
(* Extended rational arithmetic (the floats of numpy).                     *)

Abs(n) == IF n < 0 THEN -n ELSE n

Sign(n) == IF n < 0 THEN -1 ELSE IF n > 0 THEN 1 ELSE 0

RECURSIVE Gcd(_, _)
Gcd(a, b) == IF b = 0 THEN a ELSE Gcd(b, a % b)

\* the rational n/d in canonical form (d may be negative or zero on entry)
Rat(n, d) ==
    IF d = 0 THEN <<Sign(n), 0>>
    ELSE LET g == Gcd(Abs(n), Abs(d))
             s == Sign(d)
         IN  <<(s * n) \div g, (s * d) \div g>>

R(n) == <<n, 1>>

PInf == <<1, 0>>

NInf == <<-1, 0>>

NaN == <<0, 0>>

IsNaN(p) == p[1] = 0 /\ p[2] = 0

IsFinite(p) == p[2] # 0

RNeg(p) == <<-p[1], p[2]>>

RAdd(p, q) ==
    IF p[2] = 1 /\ q[2] = 1 THEN <<p[1] + q[1], 1>>
    ELSE IF IsNaN(p) \/ IsNaN(q) THEN NaN
    ELSE IF p[2] = 0 /\ q[2] = 0 THEN (IF p[1] = q[1] THEN p ELSE NaN)
    ELSE IF p[2] = 0 THEN p
    ELSE IF q[2] = 0 THEN q
    ELSE Rat(p[1] * q[2] + q[1] * p[2], p[2] * q[2])

RSub(p, q) == RAdd(p, RNeg(q))

RMul(p, q) ==
    IF p[2] = 1 /\ q[2] = 1 THEN <<p[1] * q[1], 1>>
    ELSE Rat(p[1] * q[1], p[2] * q[2])

\* x / 0 is +-inf, 0 / 0 and inf / inf are nan, x / inf is 0
RDiv(p, q) ==
    IF q[1] < 0 THEN RMul(p, <<-q[2], -q[1]>>) ELSE RMul(p, <<q[2], q[1]>>)

RLt(p, q) ==
    IF IsNaN(p) \/ IsNaN(q) THEN FALSE
    ELSE IF p[2] = 0 /\ q[2] = 0 THEN p[1] < q[1]
    ELSE p[1] * q[2] < q[1] * p[2]

RGt(p, q) == RLt(q, p)

RLe(p, q) == ~IsNaN(p) /\ ~IsNaN(q) /\ ~RLt(q, p)

RGe(p, q) == RLe(q, p)

RMin(p, q) == IF RLt(q, p) THEN q ELSE p

RMax(p, q) == IF RLt(p, q) THEN q ELSE p

\* numpy.clip(a, lo, hi) = minimum(maximum(a, lo), hi)
Clip(a, lo, hi) == RMin(RMax(a, lo), hi)

\* square of numpy.linalg.norm of a 1x3 vector
Norm2(v) == RAdd(RAdd(RMul(v[1], v[1]), RMul(v[2], v[2])), RMul(v[3], v[3]))

\* numpy.linalg.norm(a) < numpy.linalg.norm(b)
NormLt(a, b) == RLt(Norm2(a), Norm2(b))

\* a point or vertex with integer coordinates
P3(p) == <<R(p[1]), R(p[2]), R(p[3])>>

---------------------------------------------------------------------------
(* Polygons: shapely.geometry.Polygon over an axis-aligned rectangular     *)
(* exterior ring and a sequence of rectangular holes (interior rings).     *)

Rect(x0, y0, x1, y1) == [x0 |-> x0, y0 |-> y0, x1 |-> x1, y1 |-> y1]

\* the ring of a rectangle as its four edges, in ring order
\* (x0,y0) -> (x0,y1) -> (x1,y1) -> (x1,y0) -> (x0,y0)
RingEdges(r) ==
    << [a |-> <<r.x0, r.y0>>, b |-> <<r.x0, r.y1>>],
       [a |-> <<r.x0, r.y1>>, b |-> <<r.x1, r.y1>>],
       [a |-> <<r.x1, r.y1>>, b |-> <<r.x1, r.y0>>],
       [a |-> <<r.x1, r.y0>>, b |-> <<r.x0, r.y0>>] >>

\* the point lies in the open rectangle (elevation is ignored)
InOpenRect(p, r) ==
    /\ RLt(R(r.x0), p[1]) /\ RLt(p[1], R(r.x1))
    /\ RLt(R(r.y0), p[2]) /\ RLt(p[2], R(r.y1))

\* the point lies in the closed rectangle (elevation is ignored)
InClosedRect(p, r) ==
    /\ RLe(R(r.x0), p[1]) /\ RLe(p[1], R(r.x1))
    /\ RLe(R(r.y0), p[2]) /\ RLe(p[2], R(r.y1))

\* shapely: point.within(polygon), true for points of the polygon's interior:
\* strictly inside the exterior ring and not inside or on any hole
PointWithin(p, poly) ==
    /\ InOpenRect(p, poly.ext)
    /\ \A h \in 1..Len(poly.holes) : ~InClosedRect(p, poly.holes[h])

\* the lateral vector from p to the nearest point of the axis-aligned edge
\* a -> b, down component 0
EdgeVector(p, e) ==
    << RSub(Clip(p[1], R(IF e.a[1] < e.b[1] THEN e.a[1] ELSE e.b[1]),
                       R(IF e.a[1] < e.b[1] THEN e.b[1] ELSE e.a[1])), p[1]),
       RSub(Clip(p[2], R(IF e.a[2] < e.b[2] THEN e.a[2] ELSE e.b[2]),
                       R(IF e.a[2] < e.b[2] THEN e.b[2] ELSE e.a[2])), p[2]),
       R(0) >>

\* the first of the vectors vs that no other is shorter than
FirstShortest(vs) ==
    vs[CHOOSE i \in 1..Len(vs) :
          /\ \A j \in 1..Len(vs) : ~NormLt(vs[j], vs[i])
          /\ \A j \in 1..(i - 1) : NormLt(vs[i], vs[j])]

\* geometry.lines.point_line_distance(point, ring)[0]: the vector from the
\* point to the nearest point of the ring (first nearest edge in ring order)
point_line_distance(p, ring) ==
    FirstShortest(<< EdgeVector(p, RingEdges(ring)[1]),
                     EdgeVector(p, RingEdges(ring)[2]),
                     EdgeVector(p, RingEdges(ring)[3]),
                     EdgeVector(p, RingEdges(ring)[4]) >>)

---------------------------------------------------------------------------
(* Shapes.  A shape is a record; NoShape is the state before __init__.     *)

NoShape == [kind |-> "none"]

\* 1.e-6, the default of self._epsilon
DefaultEpsilon == <<1, 1000000>>

\* the identifier synthesised from md5 over the shape, a random number and
\* the definition when the definition carries no 'id'
Md5Id == "md5"

\* ShapePrimitive.define_from_dictionary
ShapePrimitive_define_from_dictionary(definition) ==
    [ kind    |-> "flat",
      shape   |-> definition.shape,
      id      |-> IF "id" \notin DOMAIN definition THEN Md5Id ELSE definition.id,
      epsilon |-> IF "epsilon" \notin DOMAIN definition
                  THEN DefaultEpsilon ELSE definition.epsilon ]

\* ShapePrimitive.__init__(shape): definition = {'shape': shape}
ShapePrimitive_init(shp) ==
    ShapePrimitive_define_from_dictionary([shape |-> shp])

\* PrismaticShape.define_from_dictionary: the flat fields, then _z0 and _zt
\* taken from the definition as given; no relation between them is checked
PrismaticShape_define_from_dictionary(definition) ==
    LET base == ShapePrimitive_define_from_dictionary(definition)
    IN  [ kind    |-> "prism",
          shape   |-> base.shape,
          id      |-> base.id,
          epsilon |-> base.epsilon,
          z0      |-> definition.z0,
          zt      |-> definition.zt ]

\* an absent keyword argument is <<>>, a given one is <<value>>
None == <<>>

\* variant of PrismaticShape.__init__: an absent z0 puts the bottom plane at 1
PrismaticShape_init_finite_default(shp, z0, zt) ==
    PrismaticShape_define_from_dictionary(
        [ shape |-> shp,
          z0    |-> IF z0 = None THEN R(1) ELSE R(z0[1]),
          zt    |-> IF zt = None THEN NInf ELSE R(zt[1]) ])

\* PrismaticShape.__init__(shape, z0, zt): absent z0 is +inf, absent zt is -inf
PrismaticShape_init(shp, z0, zt) ==
    PrismaticShape_define_from_dictionary(
        [ shape |-> shp,
          z0    |-> IF z0 = None THEN PInf ELSE R(z0[1]),
          zt    |-> IF zt = None THEN NInf ELSE R(zt[1]) ])

---------------------------------------------------------------------------
(* Point queries.                                                          *)

\* ShapePrimitive.is_point_inside
ShapePrimitive_is_point_inside(self, point) == PointWithin(point, self.shape)

\* variant of PrismaticShape.is_point_inside: the bottom plane belongs to the shape
PrismaticShape_is_point_inside_closed(self, point) ==
    /\ ShapePrimitive_is_point_inside(self, point)
    /\ RGt(point[3], self.zt)
    /\ RLe(point[3], self.z0)

\* PrismaticShape.is_point_inside
PrismaticShape_is_point_inside(self, point) ==
    /\ ShapePrimitive_is_point_inside(self, point)
    /\ RGt(point[3], self.zt)
    /\ RLt(point[3], self.z0)

\* ShapePrimitive.nearest_exterior
ShapePrimitive_nearest_exterior(self, point) ==
    point_line_distance(point, self.shape.ext)

\* the shorter of two vectors, the first on a tie
Shorter(vector_to_boundary, dist) ==
    IF NormLt(dist, vector_to_boundary) THEN dist ELSE vector_to_boundary

\* the loop of ShapePrimitive.nearest_hole over holes k .. Len(holes)
RECURSIVE NearestHoleLoop(_, _, _, _)
NearestHoleLoop(holes, k, point, vector_to_boundary) ==
    IF k > Len(holes) THEN vector_to_boundary
    ELSE NearestHoleLoop(holes, k + 1, point,
             Shorter(vector_to_boundary, point_line_distance(point, holes[k])))

\* ShapePrimitive.nearest_hole: starts from numpy.ones((1, 3)) * numpy.inf
ShapePrimitive_nearest_hole(self, point) ==
    NearestHoleLoop(self.shape.holes, 1, point, <<PInf, PInf, PInf>>)

\* variant of PrismaticShape._z_difference: the difference taken the other way
PrismaticShape_z_difference_reversed(self, point, vector) ==
    [vector EXCEPT ![3] = RSub(point[3], Clip(point[3], self.zt, self.z0))]

\* PrismaticShape._z_difference: vector[0,2] = clip(point.z, zt, z0) - point.z
PrismaticShape_z_difference(self, point, vector) ==
    [vector EXCEPT ![3] = RSub(Clip(point[3], self.zt, self.z0), point[3])]

\* variant of PrismaticShape.nearest_exterior: the flat vector for every point
PrismaticShape_nearest_exterior_always_flat(self, point) ==
    PrismaticShape_z_difference(self, point,
        ShapePrimitive_nearest_exterior(self, point))

\* PrismaticShape.nearest_exterior: a zero vector for a point within the
\* polygon, else the flat vector; then the down component
PrismaticShape_nearest_exterior(self, point) ==
    PrismaticShape_z_difference(self, point,
        IF PointWithin(point, self.shape)
        THEN <<R(0), R(0), R(0)>>
        ELSE ShapePrimitive_nearest_exterior(self, point))

\* PrismaticShape.nearest_hole
PrismaticShape_nearest_hole(self, point) ==
    PrismaticShape_z_difference(self, point, ShapePrimitive_nearest_hole(self, point))

\* self.nearest_exterior(point), dispatched on the class of self
nearest_exterior(self, point) ==
    IF self.kind = "prism" THEN PrismaticShape_nearest_exterior(self, point)
    ELSE ShapePrimitive_nearest_exterior(self, point)

\* self.nearest_hole(point), dispatched on the class of self
nearest_hole(self, point) ==
    IF self.kind = "prism" THEN PrismaticShape_nearest_hole(self, point)
    ELSE ShapePrimitive_nearest_hole(self, point)

\* variant of ShapePrimitive.nearest_boundary: the hole vector wins a tie
ShapePrimitive_nearest_boundary_hole_on_tie(self, point) ==
    Shorter(nearest_hole(self, point), nearest_exterior(self, point))

\* ShapePrimitive.nearest_boundary: the hole vector only when strictly nearer
ShapePrimitive_nearest_boundary(self, point) ==
    Shorter(nearest_exterior(self, point), nearest_hole(self, point))

\* PrismaticShape.nearest_boundary
PrismaticShape_nearest_boundary(self, point) ==
    PrismaticShape_z_difference(self, point, ShapePrimitive_nearest_boundary(self, point))

\* self.is_point_inside(point), dispatched on the class of self
is_point_inside(self, point) ==
    IF self.kind = "prism" THEN PrismaticShape_is_point_inside(self, point)
    ELSE ShapePrimitive_is_point_inside(self, point)

\* self.nearest_boundary(point), dispatched on the class of self
nearest_boundary(self, point) ==
    IF self.kind = "prism" THEN PrismaticShape_nearest_boundary(self, point)
    ELSE ShapePrimitive_nearest_boundary(self, point)

---------------------------------------------------------------------------
(* Paths: shapely.geometry.LineString.  A path is a record                 *)
(* [has_z, pts]; pts is the sequence of its vertices.  The geometry        *)
(* library works in the north/east plane and interpolates elevation.       *)

\* the vertices of the path as rational points
Vertices(path) == [i \in 1..Len(path.pts) |-> P3(path.pts[i])]

\* numpy.array(path)[:,2], the elevations of the vertices
ZOf(path) == [i \in 1..Len(path.pts) |-> R(path.pts[i][3])]

\* the segment has no lateral extent (it is vertical, or a single point)
LateralPoint(a, b) == a[1] = b[1] /\ a[2] = b[2]

\* the point of segment a -> b at fraction t, elevation interpolated
PointAt(a, b, t) ==
    << RAdd(a[1], RMul(t, RSub(b[1], a[1]))),
       RAdd(a[2], RMul(t, RSub(b[2], a[2]))),
       RAdd(a[3], RMul(t, RSub(b[3], a[3]))) >>

\* the fractions t at which a + t * d lies between lo and hi, as
\* <<low end, high end>>; <<PInf, NInf>> when there are none
Span(a, d, lo, hi, open) ==
    IF d = R(0)
    THEN IF (IF open THEN RLt(lo, a) /\ RLt(a, hi) ELSE RLe(lo, a) /\ RLe(a, hi))
         THEN <<NInf, PInf>> ELSE <<PInf, NInf>>
    ELSE IF RLt(R(0), d)
    THEN <<RDiv(RSub(lo, a), d), RDiv(RSub(hi, a), d)>>
    ELSE <<RDiv(RSub(hi, a), d), RDiv(RSub(lo, a), d)>>

\* the fractions of segment a -> b whose north lies between x0 and x1
SpanX(a, b, r, open) == Span(a[1], RSub(b[1], a[1]), R(r.x0), R(r.x1), open)

\* the fractions of segment a -> b whose east lies between y0 and y1
SpanY(a, b, r, open) == Span(a[2], RSub(b[2], a[2]), R(r.y0), R(r.y1), open)

\* two closed spans and [0, 1] share a fraction
ClosedSpansMeet(sx, sy) ==
    RLe(RMax(R(0), RMax(sx[1], sy[1])), RMin(R(1), RMin(sx[2], sy[2])))

\* two open spans and [0, 1] share a fraction
OpenSpansMeet(sx, sy) ==
    /\ RLt(RMax(sx[1], sy[1]), RMin(sx[2], sy[2]))
    /\ RLt(RMax(sx[1], sy[1]), R(1))
    /\ RLt(R(0), RMin(sx[2], sy[2]))

\* some point of segment a -> b lies in the closed rectangle
SegMeetsClosedRect(a, b, r) ==
    ClosedSpansMeet(SpanX(a, b, r, FALSE), SpanY(a, b, r, FALSE))

\* some point of segment a -> b lies in the open rectangle
SegMeetsOpenRect(a, b, r) ==
    OpenSpansMeet(SpanX(a, b, r, TRUE), SpanY(a, b, r, TRUE))

\* segment a -> b lies on one side of the ring of the rectangle
SegOnRing(a, b, r) ==
    /\ InClosedRect(a, r) /\ InClosedRect(b, r)
    /\ \/ a[1] = R(r.x0) /\ b[1] = R(r.x0)
       \/ a[1] = R(r.x1) /\ b[1] = R(r.x1)
       \/ a[2] = R(r.y0) /\ b[2] = R(r.y0)
       \/ a[2] = R(r.y1) /\ b[2] = R(r.y1)

\* no point of segment a -> b lies outside the polygon: it stays in the closed
\* exterior rectangle and enters no hole
SegCovered(a, b, poly) ==
    /\ InClosedRect(a, poly.ext) /\ InClosedRect(b, poly.ext)
    /\ \A h \in 1..Len(poly.holes) : ~SegMeetsOpenRect(a, b, poly.holes[h])

\* segment a -> b lies wholly on the boundary of the polygon
SegOnBoundary(a, b, poly) ==
    \/ SegOnRing(a, b, poly.ext)
    \/ \E h \in 1..Len(poly.holes) : SegOnRing(a, b, poly.holes[h])

\* shapely: path.within(polygon): no point of the path outside the polygon and
\* some point of it in the polygon's interior
PathWithin(path, poly) ==
    /\ \A k \in 1..(Len(path.pts) - 1) :
          SegCovered(P3(path.pts[k]), P3(path.pts[k + 1]), poly)
    /\ \E k \in 1..(Len(path.pts) - 1) :
          ~SegOnBoundary(P3(path.pts[k]), P3(path.pts[k + 1]), poly)

\* shapely: segment.intersects(polygon): the segment and the polygon share a
\* point (the polygon is closed: its rings belong to it, its holes do not)
SegIntersects(a, b, poly) ==
    /\ SegMeetsClosedRect(a, b, poly.ext)
    /\ \A h \in 1..Len(poly.holes) :
          ~(InOpenRect(a, poly.holes[h]) /\ InOpenRect(b, poly.holes[h]))

---------------------------------------------------------------------------
(* path.intersection(ring): the points and the collinear pieces the path   *)
(* shares with a ring.                                                     *)

\* A hit is what one segment of the path shares with one edge of a ring: a
\* point p at fraction t of segment seg, or a piece of the edge from p to q
Hit(kind, k, t, p, q) == [kind |-> kind, seg |-> k, t |-> t, p |-> p, q |-> q]

\* the segment crosses the line of the edge at p, fraction t: a hit when p is
\* within the edge
CrossAt(k, t, p, run, lo, hi) ==
    IF RLe(lo, p[run]) /\ RLe(p[run], hi) THEN {Hit("pt", k, t, p, p)} ELSE {}

\* the segment crosses the line of the edge at fraction t, when t is in [0, 1]
CrossHits(k, a, b, t, run, lo, hi) ==
    IF RLe(R(0), t) /\ RLe(t, R(1))
    THEN CrossAt(k, t, PointAt(a, b, t), run, lo, hi) ELSE {}

\* the fraction of segment a -> b at which coordinate c is x
Frac(a, b, c, x) ==
    IF a[c] = b[c] THEN R(0) ELSE RDiv(RSub(x, a[c]), RSub(b[c], a[c]))

\* the segment runs along the edge from fraction t1 to fraction t2
PieceHits(k, a, b, t1, t2) ==
    IF t1 = t2 THEN {Hit("pt", k, t1, PointAt(a, b, t1), PointAt(a, b, t1))}
    ELSE {Hit("line", k, t1, PointAt(a, b, t1), PointAt(a, b, t2))}

\* the segment lies on the line of the edge and shares [olo, ohi] with it
AlongHits(k, a, b, run, olo, ohi) ==
    IF RLt(ohi, olo) THEN {}
    ELSE PieceHits(k, a, b,
             RMin(Frac(a, b, run, olo), Frac(a, b, run, ohi)),
             RMax(Frac(a, b, run, olo), Frac(a, b, run, ohi)))

\* what segment k = a -> b shares with the edge whose coordinate fix is c and
\* whose other coordinate runs from lo to hi
SegLineHits(k, a, b, fix, c, lo, hi) ==
    IF a[fix] # b[fix]
    THEN CrossHits(k, a, b, Frac(a, b, fix, c), 3 - fix, lo, hi)
    ELSE IF a[fix] # c THEN {}
    ELSE AlongHits(k, a, b, 3 - fix,
             RMax(RMin(a[3 - fix], b[3 - fix]), lo),
             RMin(RMax(a[3 - fix], b[3 - fix]), hi))

\* what segment k = a -> b of the path shares with edge e of a ring
SegEdgeHits(k, a, b, e) ==
    IF e.a[1] = e.b[1]
    THEN SegLineHits(k, a, b, 1, R(e.a[1]),
             R(IF e.a[2] < e.b[2] THEN e.a[2] ELSE e.b[2]),
             R(IF e.a[2] < e.b[2] THEN e.b[2] ELSE e.a[2]))
    ELSE SegLineHits(k, a, b, 2, R(e.a[2]),
             R(IF e.a[1] < e.b[1] THEN e.a[1] ELSE e.b[1]),
             R(IF e.a[1] < e.b[1] THEN e.b[1] ELSE e.a[1]))

\* every hit of the path on the ring
RingHits(path, ring) ==
    UNION { SegEdgeHits(k, P3(path.pts[k]), P3(path.pts[k + 1]), RingEdges(ring)[j]) :
               k \in 1..(Len(path.pts) - 1), j \in 1..4 }

\* hit g comes before hit h along the path
HitBefore(g, h) == g.seg < h.seg \/ (g.seg = h.seg /\ RLt(g.t, h.t))

\* the lateral point p lies on the piece h
OnPiece(p, h) ==
    /\ RLe(RMin(h.p[1], h.q[1]), p[1]) /\ RLe(p[1], RMax(h.p[1], h.q[1]))
    /\ RLe(RMin(h.p[2], h.q[2]), p[2]) /\ RLe(p[2], RMax(h.p[2], h.q[2]))

\* the first hit of a set along the path
FirstHit(S) == CHOOSE x \in S : \A y \in S : ~HitBefore(y, x)

\* the hits of a set without those at the lateral location of h
Elsewhere(S, h) == {y \in S : ~LateralPoint(y.p, h.p)}

\* the hits of a set in path order, one per lateral location
RECURSIVE HitSeq(_)
HitSeq(S) ==
    IF S = {} THEN <<>> ELSE <<FirstHit(S)>> \o HitSeq(Elsewhere(S, FirstHit(S)))

\* the geometry the library returns for isolated points ps and pieces ls
Geometry(ps, ls) ==
    [ kind  |-> IF Len(ls) = 0
                THEN (IF Len(ps) = 0 THEN "Empty"
                      ELSE IF Len(ps) = 1 THEN "Point" ELSE "MultiPoint")
                ELSE IF Len(ps) = 0
                THEN (IF Len(ls) = 1 THEN "LineString" ELSE "MultiLineString")
                ELSE "GeometryCollection",
      pts   |-> [i \in 1..Len(ps) |-> ps[i].p],
      lines |-> [i \in 1..Len(ls) |-> <<ls[i].p, ls[i].q>>] ]

\* the geometry of a set of hits: the pieces, and the points on no piece
GeometryOf(hits) ==
    Geometry(
        HitSeq({h \in hits : h.kind = "pt" /\
                   \A l \in hits : l.kind = "line" => ~OnPiece(h.p, l)}),
        HitSeq({h \in hits : h.kind = "line"}))

\* path.intersection(ring) as the library returns it: kind is the geometry type,
\* pts the isolated points and lines the collinear pieces, both in path order;
\* elevations are interpolated along the path
LineRingIntersection(path, ring) == GeometryOf(RingHits(path, ring))

\* the fraction of segment a -> b at the lateral location i
SegFrac(a, b, i) == IF a[1] # b[1] THEN Frac(a, b, 1, i[1]) ELSE Frac(a, b, 2, i[2])

\* segment a -> b passes laterally through i, at fraction t if it has length
OnSegAt(a, b, i, t) ==
    IF LateralPoint(a, b) THEN LateralPoint(a, i)
    ELSE RLe(R(0), t) /\ RLe(t, R(1)) /\ LateralPoint(PointAt(a, b, t), i)

OnSeg(a, b, i) == OnSegAt(a, b, i, SegFrac(a, b, i))

\* path.project(i): the first segment of the path that passes through i
FirstOn(v, i) ==
    CHOOSE k \in 1..(Len(v) - 1) :
        /\ OnSeg(v[k], v[k + 1], i)
        /\ \A j \in 1..(k - 1) : ~OnSeg(v[j], v[j + 1], i)

\* the first segment after k0 that has lateral length, 0 if there is none
NextLong(v, k0) ==
    IF \A k \in (k0 + 1)..(Len(v) - 1) : LateralPoint(v[k], v[k + 1]) THEN 0
    ELSE CHOOSE k \in (k0 + 1)..(Len(v) - 1) :
            /\ ~LateralPoint(v[k], v[k + 1])
            /\ \A j \in (k0 + 1)..(k - 1) : LateralPoint(v[j], v[j + 1])

\* path.interpolate(d) for the lateral distance d of fraction t0 of segment k0:
\* the first vertex when d is zero, the point of a segment that has length
\* when it falls inside one, else the start of the next segment that has
\* length, or the last vertex
ExtractPoint(v, k0, t0) ==
    IF /\ \A j \in 1..(k0 - 1) : LateralPoint(v[j], v[j + 1])
       /\ (LateralPoint(v[k0], v[k0 + 1]) \/ t0 = R(0))
    THEN v[1]
    ELSE IF ~LateralPoint(v[k0], v[k0 + 1]) /\ RLt(t0, R(1))
    THEN PointAt(v[k0], v[k0 + 1], t0)
    ELSE IF NextLong(v, k0) = 0 THEN v[Len(v)]
    ELSE v[NextLong(v, k0)]

ProjectInterpolateAt(v, i, k0) == ExtractPoint(v, k0, SegFrac(v[k0], v[k0 + 1], i))

\* path.interpolate(path.project(i)): project finds the lateral distance along
\* the path of the first place nearest to i, interpolate the point of the path at
\* that distance
ProjectInterpolate(path, i) ==
    ProjectInterpolateAt(Vertices(path), i, FirstOn(Vertices(path), i))

---------------------------------------------------------------------------
(* Path queries.  A call returns Ok(value) or raises.                      *)

Ok(v) == [status |-> "ok", val |-> v]

Raise(e) == [status |-> e]

\* ShapePrimitive.is_path_inside
ShapePrimitive_is_path_inside(self, path) == Ok(PathWithin(path, self.shape))

\* variant of PrismaticShape.is_path_inside: the assertion on path.has_z left out
PrismaticShape_is_path_inside_unasserted(self, path) ==
    Ok(/\ ShapePrimitive_is_path_inside(self, path).val
       /\ \A i \in 1..Len(path.pts) : RGt(ZOf(path)[i], self.zt)
       /\ \A i \in 1..Len(path.pts) : RLt(ZOf(path)[i], self.z0))

\* PrismaticShape.is_path_inside: asserts path.has_z, then the lateral test and
\* every vertex elevation strictly between zt and z0
PrismaticShape_is_path_inside(self, path) ==
    IF ~path.has_z THEN Raise("AssertionError")
    ELSE Ok(/\ ShapePrimitive_is_path_inside(self, path).val
            /\ \A i \in 1..Len(path.pts) : RGt(ZOf(path)[i], self.zt)
            /\ \A i \in 1..Len(path.pts) : RLt(ZOf(path)[i], self.z0))

\* ShapePrimitive.exterior_intersections: the intersection is computed into
\* `intersection`, and the next statement reads the name `intersections`, which
\* is bound nowhere in the function or the module
ShapePrimitive_exterior_intersections(self, path) ==
    LET intersection == LineRingIntersection(path, self.shape.ext)
    IN  Raise("NameError")

\* the tuple ShapePrimitive.hole_intersections makes of one intersection: a
\* Point becomes a 1-tuple, a LineString the 1-tuple of its first coordinate,
\* anything else the tuple of its members (an empty result has none)
HoleTuple(this_hole_intersections) ==
    IF this_hole_intersections.kind = "Point"
    THEN <<this_hole_intersections.pts[1]>>
    ELSE IF this_hole_intersections.kind = "LineString"
    THEN <<this_hole_intersections.lines[1][1]>>
    ELSE this_hole_intersections.pts \o this_hole_intersections.lines

\* one pass of the loop of ShapePrimitive.hole_intersections
HoleEntry(path, hole) == HoleTuple(LineRingIntersection(path, hole))

\* the loop of ShapePrimitive.hole_intersections over holes k .. Len(holes)
RECURSIVE HoleLoop(_, _, _, _)
HoleLoop(holes, k, path, intersections) ==
    IF k > Len(holes) THEN intersections
    ELSE HoleLoop(holes, k + 1, path, Append(intersections, HoleEntry(path, holes[k])))

\* ShapePrimitive.hole_intersections: one tuple per hole, in hole order
ShapePrimitive_hole_intersections(self, path) ==
    Ok(HoleLoop(self.shape.holes, 1, path, <<>>))

\* ShapePrimitive.intersections: calls self.exterior_intersection, an attribute
\* the class does not have
ShapePrimitive_intersections(self, path) == Raise("AttributeError")

\* segment.interpolate(f, normalized=True) for 0 < f < 1: the point at fraction f
\* of the lateral length; a segment of no lateral length gives its first vertex
SegInterpolate(a, b, f) == IF LateralPoint(a, b) THEN a ELSE PointAt(a, b, f)

\* the point _z_intersection appends for a crossing found at p: only when p
\* is within the polygon
CrossingAt(self, p) == IF PointWithin(p, self.shape) THEN <<p>> ELSE <<>>

\* the crossing of one plane by segment a -> b at fraction f, kept when
\* f > 0.0 and f < 1.0
PlaneCrossing(self, a, b, f) ==
    IF RGt(f, R(0)) /\ RLt(f, R(1))
    THEN CrossingAt(self, SegInterpolate(a, b, f)) ELSE <<>>

\* one pass of the loop of _z_intersection: a segment that does not touch the
\* polygon adds nothing; else f_0 = (z0 - s_z[0]) / diff(s_z) gives the crossing
\* of the bottom plane and f_t = (zt - s_z[0]) / diff(s_z) that of the top plane
SegmentCrossings(self, a, b) ==
    IF ~SegIntersects(a, b, self.shape) THEN <<>>
    ELSE PlaneCrossing(self, a, b, RDiv(RSub(self.z0, a[3]), RSub(b[3], a[3])))
         \o PlaneCrossing(self, a, b, RDiv(RSub(self.zt, a[3]), RSub(b[3], a[3])))

\* the loop of PrismaticShape._z_intersection over segments k .. n-1
RECURSIVE ZIntersectionLoop(_, _, _, _)
ZIntersectionLoop(self, v, k, intersections) ==
    IF k >= Len(v) THEN intersections
    ELSE ZIntersectionLoop(self, v, k + 1,
             intersections \o SegmentCrossings(self, v[k], v[k + 1]))

\* PrismaticShape._z_intersection: the path is split at its vertices into its
\* segments, and each adds its plane crossings
PrismaticShape_z_intersection(self, path) ==
    ZIntersectionLoop(self, Vertices(path), 1, <<>>)

\* the test of _check_z_intersection on the point ip of the path
KeepWithinZ(self, ip) ==
    IF /\ RLe(RSub(ip[3], self.epsilon), self.z0)
       /\ RGe(RAdd(ip[3], self.epsilon), self.zt)
    THEN <<ip>> ELSE <<>>

\* the loop of PrismaticShape._check_z_intersection over candidates k .. n
RECURSIVE CheckZLoop(_, _, _, _, _)
CheckZLoop(self, path, flat_intersections, k, intersections) ==
    IF k > Len(flat_intersections) THEN intersections
    ELSE CheckZLoop(self, path, flat_intersections, k + 1,
             intersections \o
                 KeepWithinZ(self, ProjectInterpolate(path, flat_intersections[k])))

\* PrismaticShape._check_z_intersection: every candidate is replaced by the
\* point of the path at its projection and kept when that point's elevation is
\* within epsilon of [zt, z0]
PrismaticShape_check_z_intersection(self, path, flat_intersections) ==
    CheckZLoop(self, path, flat_intersections, 1, <<>>)

\* PrismaticShape.exterior_intersections after the call of the flat method
ExteriorAfterFlat(self, path, flat) ==
    IF flat.status # "ok" THEN flat
    ELSE Ok(PrismaticShape_check_z_intersection(self, path,
                flat.val \o PrismaticShape_z_intersection(self, path)))

\* PrismaticShape.exterior_intersections: the flat intersections, then the
\* plane crossings, all filtered by _check_z_intersection
PrismaticShape_exterior_intersections(self, path) ==
    ExteriorAfterFlat(self, path, ShapePrimitive_exterior_intersections(self, path))

\* PrismaticShape.intersections after the call of self.exterior_intersections
IntersectionsAfterExterior(self, path, ext) ==
    IF ext.status # "ok" THEN ext
    ELSE Ok(ext.val \o ShapePrimitive_hole_intersections(self, path).val)

\* PrismaticShape.intersections: the exterior intersections followed by the
\* entries of hole_intersections
PrismaticShape_intersections(self, path) ==
    IntersectionsAfterExterior(self, path,
        PrismaticShape_exterior_intersections(self, path))

\* self.is_path_inside(path), dispatched on the class of self
is_path_inside(self, path) ==
    IF self.kind = "prism" THEN PrismaticShape_is_path_inside(self, path)
    ELSE ShapePrimitive_is_path_inside(self, path)

\* self.exterior_intersections(path), dispatched on the class of self
exterior_intersections(self, path) ==
    IF self.kind = "prism" THEN PrismaticShape_exterior_intersections(self, path)
    ELSE ShapePrimitive_exterior_intersections(self, path)

\* self.hole_intersections(path): PrismaticShape inherits it
hole_intersections(self, path) == ShapePrimitive_hole_intersections(self, path)

\* self.intersections(path), dispatched on the class of self
intersections(self, path) ==
    IF self.kind = "prism" THEN PrismaticShape_intersections(self, path)
    ELSE ShapePrimitive_intersections(self, path)

---------------------------------------------------------------------------
(* Inputs.                                                                 *)

\* the exterior ring (0,0)-(0,6)-(6,6)-(6,0) alone, and with two square holes
Polygons ==
    { [ext |-> Rect(0, 0, 6, 6), holes |-> <<>>],
      [ext |-> Rect(0, 0, 6, 6), holes |-> <<Rect(1, 1, 3, 3), Rect(4, 4, 5, 5)>>] }

\* the z0 and zt arguments of PrismaticShape: absent, or a plane at -1 or at 1
ZArgs == {None, <<-1>>, <<1>>}

\* definitions given as dictionaries, with 'id' and 'epsilon'
Definitions ==
    { [shape |-> p, id |-> "obstacle", epsilon |-> <<1, 2>>, z0 |-> R(1), zt |-> R(-1)] :
        p \in Polygons }

Coords == -1..MaxCoord

Elevations == -MaxZ..MaxZ

\* query points
Points == Coords \X Coords \X Elevations

\* lateral positions of path vertices: one outside the exterior ring and two
\* inside the polygon; the segment from <<-1, 2>> to <<4, 2>> crosses the first
\* hole and the one from <<-1, 2>> to <<3, 4>> touches its corner
PathLaterals == {<<-1, 2>>, <<3, 4>>, <<4, 2>>}

PathVertices == {<<l[1], l[2], z>> : l \in PathLaterals, z \in Elevations}

\* vertex sequences of n vertices, consecutive vertices distinct
RECURSIVE VertexSeqs(_, _)
VertexSeqs(V, n) ==
    IF n = 0 THEN {<<>>}
    ELSE {Append(s, v) : s \in VertexSeqs(V, n - 1), v \in V}

NoRepeat(s) == \A i \in 1..(Len(s) - 1) : s[i] # s[i + 1]

\* the numbers of vertices of a path
PathLens == 2..MaxPathLen

\* paths of n vertices with elevation
Paths3D(n) ==
    { [has_z |-> TRUE, pts |-> s] :
        s \in {q \in VertexSeqs(PathVertices, n) : NoRepeat(q)} }

\* paths without elevation (their third coordinate is never read)
Paths2D ==
    { [has_z |-> FALSE, pts |-> s] :
        s \in {q \in VertexSeqs({<<l[1], l[2], 0>> : l \in PathLaterals}, 2) :
                 NoRepeat(q)} }

---------------------------------------------------------------------------
(* The state machine: one shape is constructed, then queried.  op, arg and *)
(* result hold the call that has just returned or raised; Return hands     *)
(* the result to the caller, after which the next call can be made.        *)

Init ==
    /\ shape = NoShape
    /\ op = "none"
    /\ arg = <<>>
    /\ result = Raise("none")

\* ShapePrimitive(shape) or ShapePrimitive(definition=...)
NewShapePrimitive ==
    /\ shape = NoShape /\ op = "none"
    /\ \/ \E p \in Polygons :
             /\ shape' = ShapePrimitive_init(p)
             /\ arg' = <<p>>
       \/ \E d \in Definitions :
             /\ shape' = ShapePrimitive_define_from_dictionary(d)
             /\ arg' = <<d>>
    /\ op' = "ShapePrimitive"
    /\ result' = Ok(TRUE)

\* PrismaticShape(shape, z0, zt) or PrismaticShape(definition=...)
NewPrismaticShape ==
    /\ shape = NoShape /\ op = "none"
    /\ \/ \E p \in Polygons, z0 \in ZArgs, zt \in ZArgs :
             /\ shape' = PrismaticShape_init(p, z0, zt)
             /\ arg' = <<p, z0, zt>>
       \/ \E d \in Definitions :
             /\ shape' = PrismaticShape_define_from_dictionary(d)
             /\ arg' = <<d>>
    /\ op' = "PrismaticShape"
    /\ result' = Ok(TRUE)

\* PrismaticShape(shape): both planes left at their defaults
NewDefaultPrismaticShape ==
    /\ shape = NoShape /\ op = "none"
    /\ \E p \in Polygons :
          /\ shape' = PrismaticShape_init(p, None, None)
          /\ arg' = <<p, None, None>>
    /\ op' = "PrismaticShape"
    /\ result' = Ok(TRUE)

Call_is_point_inside ==
    /\ shape # NoShape /\ op = "none"
    /\ \E x \in Points :
          /\ arg' = x
          /\ result' = Ok(is_point_inside(shape, P3(x)))
    /\ op' = "is_point_inside"
    /\ UNCHANGED shape

\* variant of the nearest_exterior call: the call stores into the shape
Call_nearest_exterior_storing ==
    /\ shape # NoShape /\ op = "none"
    /\ \E x \in Points :
          /\ arg' = x
          /\ result' = Ok(nearest_exterior(shape, P3(x)))
    /\ op' = "nearest_exterior"
    /\ shape' = [shape EXCEPT !.epsilon = R(0)]

Call_nearest_exterior ==
    /\ shape # NoShape /\ op = "none"
    /\ \E x \in Points :
          /\ arg' = x
          /\ result' = Ok(nearest_exterior(shape, P3(x)))
    /\ op' = "nearest_exterior"
    /\ UNCHANGED shape

Call_nearest_hole ==
    /\ shape # NoShape /\ op = "none"
    /\ \E x \in Points :
          /\ arg' = x
          /\ result' = Ok(nearest_hole(shape, P3(x)))
    /\ op' = "nearest_hole"
    /\ UNCHANGED shape

Call_nearest_boundary ==
    /\ shape # NoShape /\ op = "none"
    /\ \E x \in Points :
          /\ arg' = x
          /\ result' = Ok(nearest_boundary(shape, P3(x)))
    /\ op' = "nearest_boundary"
    /\ UNCHANGED shape

Call_is_path_inside ==
    /\ shape # NoShape /\ op = "none"
    /\ \/ \E n \in PathLens : \E x \in Paths3D(n) :
             /\ arg' = x
             /\ result' = is_path_inside(shape, x)
       \/ \E x \in Paths2D :
             /\ arg' = x
             /\ result' = is_path_inside(shape, x)
    /\ op' = "is_path_inside"
    /\ UNCHANGED shape

\* is_path_inside of a path without elevation
Call_is_path_inside_2D ==
    /\ shape # NoShape /\ op = "none"
    /\ \E x \in Paths2D :
          /\ arg' = x
          /\ result' = is_path_inside(shape, x)
    /\ op' = "is_path_inside"
    /\ UNCHANGED shape

Call_exterior_intersections ==
    /\ shape # NoShape /\ op = "none"
    /\ \E n \in PathLens : \E x \in Paths3D(n) :
          /\ arg' = x
          /\ result' = exterior_intersections(shape, x)
    /\ op' = "exterior_intersections"
    /\ UNCHANGED shape

Call_hole_intersections ==
    /\ shape # NoShape /\ op = "none"
    /\ \E n \in PathLens : \E x \in Paths3D(n) :
          /\ arg' = x
          /\ result' = hole_intersections(shape, x)
    /\ op' = "hole_intersections"
    /\ UNCHANGED shape

Call_intersections ==
    /\ shape # NoShape /\ op = "none"
    /\ \E n \in PathLens : \E x \in Paths3D(n) :
          /\ arg' = x
          /\ result' = intersections(shape, x)
    /\ op' = "intersections"
    /\ UNCHANGED shape

\* the plane-crossing step of PrismaticShape.exterior_intersections on its own
Call_z_intersection ==
    /\ shape # NoShape /\ op = "none" /\ shape.kind = "prism"
    /\ \E n \in PathLens : \E x \in Paths3D(n) :
          /\ arg' = x
          /\ result' = Ok(PrismaticShape_z_intersection(shape, x))
    /\ op' = "_z_intersection"
    /\ UNCHANGED shape

\* the caller takes the result; the shape stays
Return ==
    /\ op # "none"
    /\ op' = "none"
    /\ arg' = <<>>
    /\ result' = Raise("none")
    /\ UNCHANGED shape

PointCalls ==
    \/ Call_is_point_inside
    \/ Call_nearest_exterior
    \/ Call_nearest_hole
    \/ Call_nearest_boundary

PathCalls ==
    \/ Call_is_path_inside
    \/ Call_exterior_intersections
    \/ Call_hole_intersections
    \/ Call_intersections
    \/ Call_z_intersection

Next ==
    \/ NewShapePrimitive
    \/ NewPrismaticShape
    \/ PointCalls
    \/ PathCalls
    \/ Return

\* every constructor and every query
Spec == Init /\ [][Next]_vars

NextPoint ==
    \/ NewShapePrimitive
    \/ NewPrismaticShape
    \/ PointCalls
    \/ Return

\* every constructor, point queries only
SpecPoint == Init /\ [][NextPoint]_vars

NextDefault ==
    \/ NewDefaultPrismaticShape
    \/ PointCalls
    \/ Call_is_path_inside
    \/ Return

\* prismatic shapes built with the default planes only
SpecDefault == Init /\ [][NextDefault]_vars

NextPath2D ==
    \/ NewShapePrimitive
    \/ NewPrismaticShape
    \/ Call_is_path_inside_2D
    \/ Return

\* every constructor, is_path_inside of paths without elevation only
SpecPath2D == Init /\ [][NextPath2D]_vars

---------------------------------------------------------------------------
(* Properties.  The expected values below are written from the statements  *)
(* being checked, over the integer coordinates of the query point.         *)

\* the point is strictly inside the exterior ring and strictly outside every hole
LaterallyInside(p, poly) ==
    /\ poly.ext.x0 < p[1] /\ p[1] < poly.ext.x1
    /\ poly.ext.y0 < p[2] /\ p[2] < poly.ext.y1
    /\ \A h \in 1..Len(poly.holes) :
          ~(/\ poly.holes[h].x0 <= p[1] /\ p[1] <= poly.holes[h].x1
            /\ poly.holes[h].y0 <= p[2] /\ p[2] <= poly.holes[h].y1)

\* the point is strictly inside some hole
InsideAHole(p, poly) ==
    \E h \in 1..Len(poly.holes) :
        /\ poly.holes[h].x0 < p[1] /\ p[1] < poly.holes[h].x1
        /\ poly.holes[h].y0 < p[2] /\ p[2] < poly.holes[h].y1

IsPrism == shape # NoShape /\ shape.kind = "prism"

IsFlat == shape # NoShape /\ shape.kind = "flat"

NearestOps == {"nearest_exterior", "nearest_hole", "nearest_boundary"}

\* C1: PrismaticShape.is_point_inside(p) is true exactly when p is laterally
\* inside the polygon (inside the exterior ring, outside every hole) and
\* top < p.z < bottom, both strict
C1_IsPointInside ==
    (IsPrism /\ op = "is_point_inside") =>
        /\ result.status = "ok"
        /\ result.val = ( /\ LaterallyInside(arg, shape.shape)
                          /\ RLt(shape.zt, R(arg[3]))
                          /\ RLt(R(arg[3]), shape.z0) )
        /\ (R(arg[3]) = shape.zt \/ R(arg[3]) = shape.z0) => result.val = FALSE
        /\ InsideAHole(arg, shape.shape) => result.val = FALSE

\* a point laterally inside a polygon with holes, strictly between two finite
\* planes, was found inside
C1_Witness ==
    /\ IsPrism /\ op = "is_point_inside"
    /\ Len(shape.shape.holes) > 0
    /\ IsFinite(shape.zt) /\ IsFinite(shape.z0)
    /\ result.val = TRUE

\* the down component the statement gives for a point at elevation z
ExpectedDown(z, top, bottom) ==
    IF RLt(z, top) THEN RSub(top, z)
    ELSE IF RLt(bottom, z) THEN RSub(bottom, z)
    ELSE R(0)

\* C4: with top <= bottom, the down component of nearest_exterior, nearest_hole
\* and nearest_boundary of a prismatic shape is clip(p.z, top, bottom) - p.z:
\* 0 between the planes, top - p.z above the top, bottom - p.z below the bottom
C4_DownComponent ==
    (IsPrism /\ op \in NearestOps /\ RLe(shape.zt, shape.z0)) =>
        /\ result.status = "ok"
        /\ result.val[3] = ExpectedDown(R(arg[3]), shape.zt, shape.z0)

\* nearest_hole of a point below the bottom plane and laterally outside the
\* exterior ring
C4_Witness ==
    /\ IsPrism /\ op = "nearest_hole"
    /\ RLt(shape.zt, shape.z0) /\ IsFinite(shape.z0)
    /\ RLt(shape.z0, R(arg[3]))
    /\ arg[1] < shape.shape.ext.x0
    /\ result.val[3] = RSub(shape.z0, R(arg[3]))

\* C5 as stated: for a point laterally inside the polygon the north and east
\* components of nearest_exterior, nearest_hole and nearest_boundary of a
\* prismatic shape are all zero
C5_Original ==
    (IsPrism /\ op \in NearestOps /\ LaterallyInside(arg, shape.shape)) =>
        result.val[1] = R(0) /\ result.val[2] = R(0)

\* the lateral point p + v lies on the ring of the rectangle
OnRingOf(p, v, r) ==
    /\ InClosedRect(<<RAdd(R(p[1]), v[1]), RAdd(R(p[2]), v[2])>>, r)
    /\ ~InOpenRect(<<RAdd(R(p[1]), v[1]), RAdd(R(p[2]), v[2])>>, r)

\* C5 amended: for a point laterally inside the polygon the north and east
\* components of nearest_exterior and nearest_boundary of a prismatic shape are
\* zero; nearest_hole returns the non-zero lateral offset to a hole ring, or
\* infinite north and east components when the polygon has no hole
C5_LateralInside ==
    (IsPrism /\ op \in NearestOps /\ LaterallyInside(arg, shape.shape)) =>
        IF op = "nearest_hole"
        THEN IF Len(shape.shape.holes) = 0
             THEN result.val[1] = PInf /\ result.val[2] = PInf
             ELSE /\ ~(result.val[1] = R(0) /\ result.val[2] = R(0))
                  /\ \E h \in 1..Len(shape.shape.holes) :
                        OnRingOf(arg, result.val, shape.shape.holes[h])
        ELSE result.val[1] = R(0) /\ result.val[2] = R(0)

\* nearest_boundary of a point laterally inside a polygon that has holes
C5_Witness ==
    /\ IsPrism /\ op = "nearest_boundary"
    /\ Len(shape.shape.holes) > 0
    /\ LaterallyInside(arg, shape.shape)
    /\ result.val[1] = R(0) /\ result.val[2] = R(0)

\* C6: the magnitude of nearest_boundary(p) is the smaller of the magnitudes of
\* nearest_exterior(p) and nearest_hole(p) of the same shape; the hole vector is
\* returned only when strictly shorter, else the exterior vector
C6_NearestBoundary ==
    (shape # NoShape /\ op = "nearest_boundary") =>
        /\ result.status = "ok"
        /\ Norm2(result.val) = RMin(Norm2(nearest_exterior(shape, P3(arg))),
                                    Norm2(nearest_hole(shape, P3(arg))))
        /\ result.val =
              IF RLt(Norm2(nearest_hole(shape, P3(arg))),
                     Norm2(nearest_exterior(shape, P3(arg))))
              THEN nearest_hole(shape, P3(arg))
              ELSE nearest_exterior(shape, P3(arg))

\* a point as far from a hole as from the exterior ring, in different directions
C6_Witness ==
    /\ shape # NoShape /\ op = "nearest_boundary"
    /\ Len(shape.shape.holes) > 0
    /\ Norm2(nearest_hole(shape, P3(arg))) = Norm2(nearest_exterior(shape, P3(arg)))
    /\ nearest_hole(shape, P3(arg)) # nearest_exterior(shape, P3(arg))
    /\ result.val = nearest_exterior(shape, P3(arg))

\* the elements of a tuple
Range(t) == {t[i] : i \in 1..Len(t)}

\* the points where the path crosses the ring, in path order
CrossingPoints(path, ring) == LineRingIntersection(path, ring).pts

\* C2 as stated: exterior_intersections of a flat shape completes for every
\* path and returns the tuple of the points where the path crosses the exterior
\* ring: empty, a 1-tuple, or all the crossings
C2_FlatExteriorIntersections ==
    (IsFlat /\ op = "exterior_intersections") =>
        /\ result.status = "ok"
        /\ result.val = CrossingPoints(arg, shape.shape.ext)

\* C3 as stated: intersections(path) returns the exterior entries first and
\* then the entries of hole_intersections(path) in hole order, for flat and for
\* prismatic shapes
C3_ExteriorThenHoles ==
    (shape # NoShape /\ op = "intersections") =>
        /\ result.status = "ok"
        /\ exterior_intersections(shape, arg).status = "ok"
        /\ result.val = exterior_intersections(shape, arg).val
                            \o hole_intersections(shape, arg).val

\* the point where segment a -> b crosses the plane at elevation plane strictly
\* between its ends and laterally within the polygon, if there is one
ExpectedPlaneCrossing(poly, a, b, plane) ==
    IF ~IsFinite(plane) \/ a[3] = b[3] THEN {}
    ELSE IF /\ RLt(R(0), RDiv(RSub(plane, a[3]), RSub(b[3], a[3])))
            /\ RLt(RDiv(RSub(plane, a[3]), RSub(b[3], a[3])), R(1))
            /\ PointWithin(PointAt(a, b, RDiv(RSub(plane, a[3]), RSub(b[3], a[3]))), poly)
    THEN {PointAt(a, b, RDiv(RSub(plane, a[3]), RSub(b[3], a[3])))}
    ELSE {}

\* the plane crossings of every segment of the path
ExpectedPlaneCrossings(self, path) ==
    UNION { ExpectedPlaneCrossing(self.shape, P3(path.pts[k]), P3(path.pts[k + 1]), plane) :
               k \in 1..(Len(path.pts) - 1), plane \in {self.zt, self.z0} }

\* C7 as stated: exterior_intersections of a prismatic shape contains, for every
\* segment and each of the two planes, the interpolated point where the segment
\* crosses the plane at a fraction 0 < f < 1 laterally within the polygon
C7_PlaneCrossings ==
    (IsPrism /\ op = "exterior_intersections") =>
        /\ result.status = "ok"
        /\ ExpectedPlaneCrossings(shape, arg) \subseteq Range(result.val)

\* the elevation is within epsilon of [top, bottom]
WithinPlanes(self, z) ==
    /\ RLe(RSub(self.zt, self.epsilon), z)
    /\ RLe(z, RAdd(self.z0, self.epsilon))

\* C8 as stated: exterior_intersections of a prismatic shape keeps a crossing of
\* the lateral wall exactly when the elevation of the path at that crossing is
\* within [top - epsilon, bottom + epsilon], also when the path passes the same
\* lateral location at several elevations
C8_WallCrossings ==
    (IsPrism /\ op = "exterior_intersections") =>
        /\ result.status = "ok"
        /\ \A h \in RingHits(arg, shape.shape.ext) :
              (h.p \in Range(result.val)) <=> WithinPlanes(shape, h.p[3])

\* the flat shape over the polygon of a prismatic shape
FlatOf(self) == ShapePrimitive_init(self.shape)

\* what the flat shape answers to the query
FlatResult(self, query, x) ==
    CASE query = "is_point_inside" -> Ok(ShapePrimitive_is_point_inside(self, P3(x)))
      [] query = "nearest_exterior" -> Ok(ShapePrimitive_nearest_exterior(self, P3(x)))
      [] query = "nearest_hole" -> Ok(ShapePrimitive_nearest_hole(self, P3(x)))
      [] query = "nearest_boundary" -> Ok(ShapePrimitive_nearest_boundary(self, P3(x)))
      [] query = "is_path_inside" -> ShapePrimitive_is_path_inside(self, x)

HasDefaultPlanes == IsPrism /\ shape.zt = NInf /\ shape.z0 = PInf

Queries ==
    {"is_point_inside", "nearest_exterior", "nearest_hole", "nearest_boundary",
     "is_path_inside"}

\* C9 as stated: a prismatic shape built with the default planes answers every
\* point and path query as the flat shape over the same polygon does
C9_Original ==
    (HasDefaultPlanes /\ op \in Queries) =>
        result = FlatResult(FlatOf(shape), op, arg)

\* C9 amended: a prismatic shape built without z0 and zt has its planes at
\* +infinity and -infinity, and answers is_point_inside of a 3D point and
\* is_path_inside of a path with elevation as the flat shape over the same
\* polygon does (every prismatic shape of SpecDefault is built that way)
C9_DefaultPlanes ==
    /\ (IsPrism /\ op = "PrismaticShape" /\ arg[2] = None /\ arg[3] = None) =>
           shape.zt = NInf /\ shape.z0 = PInf
    /\ (/\ IsPrism /\ op \in {"is_point_inside", "is_path_inside"}
        /\ (op = "is_path_inside" => arg.has_z)) =>
           result = FlatResult(FlatOf(shape), op, arg)

\* a path with vertices at several elevations found inside
C9_Witness ==
    /\ HasDefaultPlanes /\ op = "is_path_inside"
    /\ arg.has_z
    /\ arg.pts[1][3] # arg.pts[2][3]
    /\ result = Ok(TRUE)

\* C10 as stated: no prismatic shape is constructed with top > bottom; the
\* construction fails with a configuration error
C10_TopNotBelowBottom ==
    IsPrism => RLe(shape.zt, shape.z0)

\* C11: PrismaticShape.is_path_inside of a path without elevation raises the
\* assertion error of its precondition and returns no boolean, for every
\* prismatic shape and every such path, whatever the lateral test would say
C11_NoElevationRaises ==
    (IsPrism /\ op = "is_path_inside" /\ ~arg.has_z) =>
        /\ result.status = "AssertionError"
        /\ "val" \notin DOMAIN result

\* a 2D path that lies within the polygon of a prismatic shape whose planes
\* are both infinite was refused
C11_Witness ==
    /\ HasDefaultPlanes /\ op = "is_path_inside"
    /\ ~arg.has_z
    /\ PathWithin(arg, shape.shape)
    /\ result.status = "AssertionError"

\* the path with the same vertices in the opposite order
ReversePath(path) ==
    [ has_z |-> path.has_z,
      pts   |-> [i \in 1..Len(path.pts) |-> path.pts[Len(path.pts) + 1 - i]] ]

\* C12 as stated: intersections(path) and intersections(reverse(path)) return
\* the same set of points, for every shape and every path
C12_ReversalInvariant ==
    (shape # NoShape /\ op = "intersections") =>
        /\ result.status = "ok"
        /\ intersections(shape, ReversePath(arg)).status = "ok"
        /\ Range(result.val) = Range(intersections(shape, ReversePath(arg)).val)

StrictlyBetweenPlanes(self, z) == RLt(self.zt, R(z)) /\ RLt(R(z), self.z0)

\* the elevation is strictly above the top plane or strictly below the bottom
StrictlyBeyondPlanes(self, z) == RLt(R(z), self.zt) \/ RLt(self.z0, R(z))

\* every vertex of the path is laterally inside the polygon, some vertex lies
\* strictly between the planes and a later one strictly beyond them
LeavesThroughPlane(self, path) ==
    /\ \A i \in 1..Len(path.pts) : LaterallyInside(path.pts[i], self.shape)
    /\ \E i \in 1..Len(path.pts) : \E j \in (i + 1)..Len(path.pts) :
          /\ StrictlyBetweenPlanes(self, path.pts[i][3])
          /\ StrictlyBeyondPlanes(self, path.pts[j][3])

\* C14 as stated: for a prismatic shape with finite top < bottom and a path
\* that stays laterally inside the polygon and goes from strictly between the
\* planes to strictly beyond them, _z_intersection reports a crossing point at
\* the elevation of the top or of the bottom plane, also when the path meets
\* the plane exactly at a vertex
C14_LeavingReportsCrossing ==
    (/\ IsPrism /\ op = "_z_intersection"
     /\ IsFinite(shape.zt) /\ IsFinite(shape.z0) /\ RLt(shape.zt, shape.z0)
     /\ LeavesThroughPlane(shape, arg)) =>
        \E k \in 1..Len(result.val) :
            result.val[k][3] = shape.zt \/ result.val[k][3] = shape.z0

====
